---- MODULE Spec2Model ----
(***************************************************************************)
(* Model of tools/analysis/benchmark_compare.py: the loader, the time      *)
(* extractor, the comparator, the gate, the two renderers and main().      *)
(*                                                                         *)
(* Representation                                                          *)
(*   - a benchmark name is a string, modelled as the sequence of its code  *)
(*     points, so that Python's string ordering can be computed;           *)
(*   - a Python dict is the sequence of its <<key, value>> pairs in        *)
(*     iteration (insertion) order, keys unique;                           *)
(*   - an Optional value is <<>> (None) or <<v>>;                          *)
(*   - a float is an exact fraction [num, den] with den > 0 (rounding of   *)
(*     binary floating point is not modelled);                             *)
(*   - a raised exception is a result record with raised # "".             *)
(***************************************************************************)
EXTENDS Integers, Sequences, FiniteSets, TLC

VARIABLES pc, args, files, baseline, current, comparisons, raised,
          stdout, stderr, report_file, gate, exit_code

vars == <<pc, args, files, baseline, current, comparisons, raised,
          stdout, stderr, report_file, gate, exit_code>>

----------------------------------------------------------------------------
(* Bounds of the model *)

\* SpecCompare: total number of records in the two measurement sets
MaxRecords == 3
\* Spec: total number of records in the two source files
MaxFileRecords == 2
\* SpecReport: length of the list of comparisons
MaxComparisons == 3

----------------------------------------------------------------------------
(* Values *)

None == <<>>
Some(v) == <<v>>

\* "a", "ab", "b"
Name_a == <<97>>
Name_ab == <<97, 98>>
Name_b == <<98>>
Names == {Name_a, Name_ab, Name_b}

Frac(n, d) == [num |-> n, den |-> d]
FracLess(x, y) == x.num * y.den < y.num * x.den
FracEq(x, y) == x.num * y.den = y.num * x.den
FracNeg(x) == [num |-> 0 - x.num, den |-> x.den]
Zero == Frac(0, 1)
One == Frac(1, 1)

\* Python's str.__lt__: code point by code point, a proper prefix is smaller
RECURSIVE StrLess(_, _)
StrLess(s, t) ==
    IF t = <<>> THEN FALSE
    ELSE IF s = <<>> THEN TRUE
    ELSE IF Head(s) < Head(t) THEN TRUE
    ELSE IF Head(s) > Head(t) THEN FALSE
    ELSE StrLess(Tail(s), Tail(t))

(* dict *)
RECURSIVE DictKeys(_)
DictKeys(d) == IF d = <<>> THEN {} ELSE {d[1][1]} \cup DictKeys(Tail(d))

\* dict.get(key): None when the key is absent
RECURSIVE DictGet(_, _)
DictGet(d, k) ==
    IF d = <<>> THEN None
    ELSE IF d[1][1] = k THEN Some(d[1][2])
    ELSE DictGet(Tail(d), k)

\* d[k] = v: an existing key keeps its position, a new key goes last
DictSet(d, k, v) ==
    IF k \in DictKeys(d)
    THEN [i \in 1..Len(d) |-> IF d[i][1] = k THEN <<k, v>> ELSE d[i]]
    ELSE Append(d, <<k, v>>)

----------------------------------------------------------------------------
(* Python values read from JSON: a dict is [kind |-> "dict", items |-> d], *)
(* or [kind |-> "dict", benchmarks |-> l] when it has the key 'benchmarks' *)
PyDict(d) == [kind |-> "dict", items |-> d]
IsDict(v) == v.kind = "dict"

(* class ChangeType *)
ChangeType_IMPROVEMENT == "improvement"
ChangeType_REGRESSION == "regression"
ChangeType_UNCHANGED == "unchanged"
ChangeType_NEW == "new"
ChangeType_REMOVED == "removed"

BenchmarkComparison(name, baseline_time, current_time, change_percent, change_type, speedup) ==
    [name |-> name, baseline_time |-> baseline_time,
     current_time |-> current_time, change_percent |-> change_percent,
     change_type |-> change_type, speedup |-> speedup]

Ok(v) == [raised |-> "", value |-> v]
Raise(e) == [raised |-> e, value |-> None]

----------------------------------------------------------------------------
(* get_time *)

get_time_zero_default(benchmark) ==
    IF "cpu_time" \in DOMAIN benchmark THEN Ok(benchmark.cpu_time)
    ELSE IF "real_time" \in DOMAIN benchmark THEN Ok(benchmark.real_time)
    ELSE Ok(0)

get_time(benchmark) ==
    IF "cpu_time" \in DOMAIN benchmark THEN Ok(benchmark.cpu_time)
    ELSE IF "real_time" \in DOMAIN benchmark THEN Ok(benchmark.real_time)
    ELSE Raise("ValueError")

----------------------------------------------------------------------------
(* compare_benchmarks *)

all_names_baseline_only(b, c) == DictKeys(b)

\* line 71
all_names(b, c) == DictKeys(b) \cup DictKeys(c)

\* insertion of x into an ascending list
RECURSIVE Insert(_, _)
Insert(x, s) ==
    IF s = <<>> THEN <<x>>
    ELSE IF StrLess(x, Head(s)) THEN <<x>> \o s
    ELSE <<Head(s)>> \o Insert(x, Tail(s))

RECURSIVE InsertDesc(_, _)
InsertDesc(x, s) ==
    IF s = <<>> THEN <<x>>
    ELSE IF StrLess(Head(s), x) THEN <<x>> \o s
    ELSE <<Head(s)>> \o InsertDesc(x, Tail(s))

RECURSIVE sorted_reversed(_)
sorted_reversed(S) ==
    IF S = {} THEN <<>>
    ELSE LET x == CHOOSE y \in S : TRUE
         IN InsertDesc(x, sorted_reversed(S \ {x}))

\* sorted(a set of str): the set is iterated in an arbitrary order
RECURSIVE sorted(_)
sorted(S) ==
    IF S = {} THEN <<>>
    ELSE LET x == CHOOSE y \in S : TRUE
         IN Insert(x, sorted(S \ {x}))

change_percent_of(baseline_time, current_time) ==
    IF baseline_time > 0
    THEN Frac(current_time - baseline_time, baseline_time)
    ELSE Zero

speedup_guard_baseline_only(baseline_time, current_time) ==
    IF baseline_time > 0
    THEN (IF current_time > 0 THEN Frac(baseline_time, current_time) ELSE One)
    ELSE One

\* lines 101-106
speedup_of(baseline_time, current_time) ==
    IF baseline_time > 0
    THEN (IF current_time > 0 THEN Frac(baseline_time, current_time) ELSE Zero)
    ELSE One

classify_inclusive(change_percent, threshold) ==
    IF ~FracLess(change_percent, threshold) THEN ChangeType_REGRESSION
    ELSE IF ~FracLess(FracNeg(threshold), change_percent) THEN ChangeType_IMPROVEMENT
    ELSE ChangeType_UNCHANGED

\* lines 108-113
classify(change_percent, threshold) ==
    IF FracLess(threshold, change_percent) THEN ChangeType_REGRESSION
    ELSE IF FracLess(change_percent, FracNeg(threshold)) THEN ChangeType_IMPROVEMENT
    ELSE ChangeType_UNCHANGED

\* the body of the loop, lines 74-122, for one name
compare_one(name, b, c, threshold) ==
    LET baseline_bench == DictGet(b, name)
        current_bench == DictGet(c, name)
    IN IF baseline_bench = None
       THEN LET t == get_time(current_bench[1])
            IN IF t.raised # "" THEN Raise(t.raised)
               ELSE Ok(BenchmarkComparison(name, None, Some(t.value), Zero,
                                           ChangeType_NEW, One))
       ELSE IF current_bench = None
       THEN LET t == get_time(baseline_bench[1])
            IN IF t.raised # "" THEN Raise(t.raised)
               ELSE Ok(BenchmarkComparison(name, Some(t.value), None, Zero,
                                           ChangeType_REMOVED, One))
       ELSE LET bt == get_time(baseline_bench[1])
                ct == get_time(current_bench[1])
            IN IF bt.raised # "" THEN Raise(bt.raised)
               ELSE IF ct.raised # "" THEN Raise(ct.raised)
               ELSE LET cp == change_percent_of(bt.value, ct.value)
                    IN Ok(BenchmarkComparison(
                           name, Some(bt.value), Some(ct.value), cp,
                           classify(cp, threshold),
                           speedup_of(bt.value, ct.value)))

\* the loop of line 73: an exception leaves the loop and the function
RECURSIVE compare_loop(_, _, _, _, _)
compare_loop(names, b, c, threshold, acc) ==
    IF names = <<>> THEN Ok(acc)
    ELSE LET r == compare_one(Head(names), b, c, threshold)
         IN IF r.raised # "" THEN Raise(r.raised)
            ELSE compare_loop(Tail(names), b, c, threshold,
                              Append(acc, r.value))

\* lines 63-124; baseline.keys() of a value that is no dict raises
compare_benchmarks(b, c, threshold) ==
    IF ~IsDict(b) \/ ~IsDict(c) THEN Raise("AttributeError")
    ELSE compare_loop(sorted(all_names(b.items, c.items)),
                      b.items, c.items, threshold, <<>>)

----------------------------------------------------------------------------
(* load_benchmark_json *)

\* the dict comprehension of line 50: b['name'] of an entry without the key
\* raises KeyError; a later duplicate name overwrites the earlier record
RECURSIVE from_benchmarks(_, _)
from_benchmarks(entries, acc) ==
    IF entries = <<>> THEN Ok(PyDict(acc))
    ELSE LET b == Head(entries)
         IN IF "name" \notin DOMAIN b THEN Raise("KeyError")
            ELSE from_benchmarks(Tail(entries), DictSet(acc, b.name, b))

\* a file is missing, holds invalid JSON, or holds a JSON value
load_benchmark_json(file) ==
    IF file.kind = "missing" THEN Raise("FileNotFoundError")
    ELSE IF file.kind = "invalid" THEN Raise("JSONDecodeError")
    ELSE LET data == file.data
         IN \* 'benchmarks' in data: not defined on a number or on None
            IF data.kind \in {"int", "NoneType"} THEN Raise("TypeError")
            \* a list or a str that does not hold 'benchmarks' is returned
            ELSE IF data.kind = "dict" /\ "benchmarks" \in DOMAIN data
            THEN from_benchmarks(data.benchmarks, <<>>)
            ELSE Ok(data)

----------------------------------------------------------------------------
(* check_regression *)

IsRegression(c) == c.change_type = ChangeType_REGRESSION
IsImprovement(c) == c.change_type = ChangeType_IMPROVEMENT
IsUnchanged(c) == c.change_type = ChangeType_UNCHANGED
IsNew(c) == c.change_type = ChangeType_NEW
IsRemoved(c) == c.change_type = ChangeType_REMOVED

check_regression_by_threshold(cs, threshold) ==
    LET Over(c) == FracLess(threshold, c.change_percent)
        regressions == SelectSeq(cs, Over)
    IN [has_regression |-> Len(regressions) > 0, regressions |-> regressions]

\* lines 127-133: the threshold parameter is not read
check_regression(cs, threshold) ==
    LET regressions == SelectSeq(cs, IsRegression)
    IN [has_regression |-> Len(regressions) > 0, regressions |-> regressions]

----------------------------------------------------------------------------
(* format_time: the unit and the scaled value that "%.2f" renders *)

Thousand == 1000
Million == 1000000
Billion == 1000000000

format_time(ns) ==
    IF ns < Thousand THEN [value |-> Frac(ns, 1), decimals |-> 2, unit |-> "ns"]
    ELSE IF ns < Million
    THEN [value |-> Frac(ns, Thousand), decimals |-> 2, unit |-> "us"]
    ELSE IF ns < Billion
    THEN [value |-> Frac(ns, Million), decimals |-> 2, unit |-> "ms"]
    ELSE [value |-> Frac(ns, Billion), decimals |-> 2, unit |-> "s"]

NA == [value |-> Zero, decimals |-> 0, unit |-> "N/A"]

\* the truth value of an Optional[float]: None and 0 are false
Truthy(opt) == opt # None /\ opt[1] # 0

\* format_time(t) if t else "N/A"
time_cell(opt) == IF Truthy(opt) THEN format_time(opt[1]) ELSE NA

----------------------------------------------------------------------------
(* generate_markdown_report: the lines that "\n".join(lines) joins *)

Text(t) == [kind |-> "text", text |-> t]
Blank == Text("")
TableHeader(last) == [kind |-> "header", last |-> last]
TableRule == [kind |-> "rule"]

\* {x*100:.1f}% with the sign the f-string puts before it
Percent(sign, x) == [sign |-> sign, value |-> Frac(x.num * 100, x.den), decimals |-> 1]

regression_row(c) ==
    [kind |-> "row", name |-> c.name,
     baseline |-> time_cell(c.baseline_time),
     current |-> time_cell(c.current_time),
     change |-> Percent("+", c.change_percent),
     last |-> [speedup |-> c.speedup, decimals |-> 2]]

improvement_row(c) ==
    [kind |-> "row", name |-> c.name,
     baseline |-> time_cell(c.baseline_time),
     current |-> time_cell(c.current_time),
     change |-> Percent("", c.change_percent),
     last |-> [speedup |-> c.speedup, decimals |-> 2]]

all_results_row(c) ==
    [kind |-> "row", name |-> c.name,
     baseline |-> time_cell(c.baseline_time),
     current |-> time_cell(c.current_time),
     change |-> IF c.change_type \in {ChangeType_NEW, ChangeType_REMOVED}
                THEN [sign |-> "", value |-> Zero, decimals |-> 0 - 1]
                ELSE Percent(IF FracLess(Zero, c.change_percent) THEN "+" ELSE "",
                             c.change_percent),
     last |-> [status |-> c.change_type]]

regression_rows(cs) == [i \in 1..Len(cs) |-> regression_row(cs[i])]
improvement_rows(cs) == [i \in 1..Len(cs) |-> improvement_row(cs[i])]
all_results_rows(cs) == [i \in 1..Len(cs) |-> all_results_row(cs[i])]

Count(label, n) == [kind |-> "count", label |-> label, n |-> n]

regressions_section_always(regressions) ==
    <<Text("## Regressions"), Blank, TableHeader("Speedup"), TableRule>>
    \o regression_rows(regressions) \o <<Blank>>

\* lines 179-193
regressions_section(regressions) ==
    IF regressions # <<>>
    THEN <<Text("## Regressions"), Blank, TableHeader("Speedup"), TableRule>>
         \o regression_rows(regressions) \o <<Blank>>
    ELSE <<>>

\* lines 195-209
improvements_section(improvements) ==
    IF improvements # <<>>
    THEN <<Text("## Improvements"), Blank, TableHeader("Speedup"), TableRule>>
         \o improvement_rows(improvements) \o <<Blank>>
    ELSE <<>>

generate_markdown_report(cs, baseline_file, current_file) ==
    LET improvements == SelectSeq(cs, IsImprovement)
        regressions == SelectSeq(cs, IsRegression)
        unchanged == SelectSeq(cs, IsUnchanged)
        new_benchmarks == SelectSeq(cs, IsNew)
        removed == SelectSeq(cs, IsRemoved)
    IN <<Text("# Benchmark Comparison Report"), Blank,
         [kind |-> "source", label |-> "Baseline", file |-> baseline_file],
         [kind |-> "source", label |-> "Current", file |-> current_file],
         Blank, Text("## Summary"), Blank,
         Count("Improvements", Len(improvements)),
         Count("Regressions", Len(regressions)),
         Count("Unchanged", Len(unchanged)),
         Count("New", Len(new_benchmarks)),
         Count("Removed", Len(removed)),
         Blank>>
       \o regressions_section(regressions)
       \o improvements_section(improvements)
       \o <<Text("## All Results"), Blank, TableHeader("Status"), TableRule>>
       \o all_results_rows(cs)

----------------------------------------------------------------------------
(* print_summary: the lines printed *)

summary_line(c) ==
    IF c.change_type = ChangeType_NEW
    THEN [marker |-> ChangeType_NEW, name |-> c.name,
          times |-> <<format_time(c.current_time[1])>>]
    ELSE IF c.change_type = ChangeType_REMOVED
    THEN [marker |-> ChangeType_REMOVED, name |-> c.name, times |-> <<>>]
    ELSE [marker |-> c.change_type, name |-> c.name,
          change |-> Percent(IF FracLess(Zero, c.change_percent) THEN "+" ELSE "",
                             c.change_percent),
          times |-> <<format_time(c.baseline_time[1]),
                      format_time(c.current_time[1])>>]

print_summary(cs) ==
    <<Text("=== Benchmark Comparison Summary ===")>>
    \o [i \in 1..Len(cs) |-> summary_line(cs[i])] \o <<Blank>>

----------------------------------------------------------------------------
(* Inputs of the comparator *)

Extra == [iterations |-> 1]
Rec_none == Extra
Rec_cpu0 == [iterations |-> 1, cpu_time |-> 0]
Rec_cpu100_real120 == [iterations |-> 1, cpu_time |-> 100, real_time |-> 120]
Rec_cpu120 == [iterations |-> 1, cpu_time |-> 120]
Rec_real110 == [iterations |-> 1, real_time |-> 110]
Records == {Rec_none, Rec_cpu0, Rec_cpu100_real120, Rec_cpu120, Rec_real110}

\* thresholds a caller may pass (--threshold is any float)
Thresholds == {Frac(1, 10), Frac(0, 1), Frac(0 - 1, 10)}

UniqueKeys(d) == \A i, j \in 1..Len(d) : d[i][1] = d[j][1] => i = j

\* the dicts of exactly k records over the given names and records
Dicts(names, records, k) ==
    {d \in [1..k -> names \X records] : UniqueKeys(d)}

\* argparse's result: the two positional paths and the options
Args(threshold, report, fail_on_regression, quiet) ==
    [baseline |-> "baseline.json", current |-> "current.json",
     threshold |-> threshold, report |-> report,
     fail_on_regression |-> fail_on_regression, quiet |-> quiet]
NoArgs == Args(Frac(1, 10), None, FALSE, FALSE)
NoFiles == [baseline |-> [kind |-> "unused"], current |-> [kind |-> "unused"]]
\* the result of check_regression, with the list it was called on
GateResult(g, cs) ==
    [has_regression |-> g.has_regression, regressions |-> g.regressions,
     called |-> TRUE, arg |-> cs]
NoGate == [has_regression |-> FALSE, regressions |-> <<>>, called |-> FALSE,
           arg |-> <<>>]
NoException == [exc |-> "", at |-> ""]
Exception(e, where) == [exc |-> e, at |-> where]

InitCompare ==
    /\ pc = "call"
    /\ \E th \in Thresholds : args = [NoArgs EXCEPT !.threshold = th]
    /\ files = NoFiles
    /\ \E kb \in 0..MaxRecords : \E kc \in 0..(MaxRecords - kb) :
          /\ \E d \in Dicts(Names, Records, kb) : baseline = PyDict(d)
          /\ \E d \in Dicts(Names, Records, kc) : current = PyDict(d)
    /\ comparisons = None
    /\ raised = NoException
    /\ stdout = <<>>
    /\ stderr = <<>>
    /\ report_file = None
    /\ gate = NoGate
    /\ exit_code = None

CallCompare ==
    /\ pc = "call"
    /\ LET r == compare_benchmarks(baseline, current, args.threshold)
       IN /\ raised' = IF r.raised = "" THEN NoException
                       ELSE Exception(r.raised, "compare_benchmarks")
          /\ comparisons' = IF r.raised = "" THEN Some(r.value) ELSE None
    /\ pc' = "returned"
    /\ UNCHANGED <<args, files, baseline, current, stdout, stderr,
                   report_file, gate, exit_code>>

NextCompare == CallCompare

SpecCompare == InitCompare /\ [][NextCompare]_vars

----------------------------------------------------------------------------
(* The gate and the renderers on lists of comparisons *)

PoolRecord(t) == [iterations |-> 1, cpu_time |-> t]
PoolDict(name, opt) ==
    IF opt = None THEN <<>> ELSE <<<<name, PoolRecord(opt[1])>>>>
PoolComparison(name, bopt, copt) ==
    compare_one(name, PoolDict(name, bopt), PoolDict(name, copt),
                Frac(1, 10)).value

ComparisonPool ==
    {PoolComparison(Name_a, p[1], p[2]) :
        p \in {<<None, Some(120)>>, <<Some(100), None>>,
               <<Some(100), Some(120)>>, <<Some(120), Some(100)>>,
               <<Some(100), Some(100)>>, <<Some(0), Some(0)>>,
               <<Some(100), Some(0)>>, <<None, Some(2500)>>}}
    \cup {PoolComparison(Name_b, p[1], p[2]) :
        p \in {<<Some(100), Some(120)>>, <<Some(120), Some(100)>>}}

InitReport ==
    /\ pc = "call"
    /\ \E th \in Thresholds : args = [NoArgs EXCEPT !.threshold = th]
    /\ files = NoFiles
    /\ baseline = None
    /\ current = None
    /\ \E k \in 0..MaxComparisons :
          \E cs \in [1..k -> ComparisonPool] : comparisons = Some(cs)
    /\ raised = NoException
    /\ stdout = <<>>
    /\ stderr = <<>>
    /\ report_file = None
    /\ gate = NoGate
    /\ exit_code = None

CallCheckRegression ==
    /\ pc = "call"
    /\ ~gate.called
    /\ LET g == check_regression(comparisons[1], args.threshold)
       IN gate' = GateResult(g, comparisons[1])
    /\ UNCHANGED <<pc, args, files, baseline, current, comparisons, raised,
                   stdout, stderr, report_file, exit_code>>

CallGenerateReport ==
    /\ pc = "call"
    /\ report_file = None
    /\ report_file' = Some([path |-> "",
                            content |-> generate_markdown_report(
                                comparisons[1], args.baseline, args.current)])
    /\ UNCHANGED <<pc, args, files, baseline, current, comparisons, raised,
                   stdout, stderr, gate, exit_code>>

CallPrintSummary ==
    /\ pc = "call"
    /\ stdout = <<>>
    /\ stdout' = <<[kind |-> "summary", lines |-> print_summary(comparisons[1])]>>
    /\ UNCHANGED <<pc, args, files, baseline, current, comparisons, raised,
                   stderr, report_file, gate, exit_code>>

NextReport == CallCheckRegression \/ CallGenerateReport \/ CallPrintSummary

SpecReport == InitReport /\ [][NextReport]_vars

----------------------------------------------------------------------------
(* main *)

MainNames == {Name_a, Name_b}
MainRecords == {Rec_none, Rec_cpu100_real120, Rec_cpu120}
MainThresholds == {Frac(1, 10), Frac(1, 4)}

\* the entries of a 'benchmarks' list: records with a name, and one without
Named(n, r) == [name |-> n] @@ r
Entries == {Named(n, r) : n \in MainNames, r \in MainRecords} \cup {Rec_cpu120}

Json(data) == [kind |-> "json", data |-> data]
Wrapped(l) == [kind |-> "dict", benchmarks |-> l]

\* files without records: absent, not JSON, or a JSON value that is no object
RecordlessFiles ==
    {[kind |-> "missing"], [kind |-> "invalid"], Json([kind |-> "list"]),
     Json([kind |-> "str"]), Json([kind |-> "int"]), Json([kind |-> "NoneType"])}

\* the files holding k records, in either shape
Files(k) ==
    {Json(PyDict(d)) : d \in Dicts(MainNames, MainRecords, k)}
    \cup {Json(Wrapped(l)) : l \in [1..k -> Entries]}
    \cup (IF k = 0 THEN RecordlessFiles ELSE {})

Init ==
    /\ pc = "load_baseline"
    /\ \E th \in MainThresholds, rep \in {None, Some("report.md")},
          f \in BOOLEAN, q \in BOOLEAN : args = Args(th, rep, f, q)
    /\ \E kb \in 0..MaxFileRecords : \E kc \in 0..(MaxFileRecords - kb) :
          \E fb \in Files(kb), fc \in Files(kc) :
             files = [baseline |-> fb, current |-> fc]
    /\ baseline = None
    /\ current = None
    /\ comparisons = None
    /\ raised = NoException
    /\ stdout = <<>>
    /\ stderr = <<>>
    /\ report_file = None
    /\ gate = NoGate
    /\ exit_code = None

\* lines 296-301: the two exceptions main catches
Caught == {"FileNotFoundError", "JSONDecodeError"}

\* sys.exit(1) of a handler, or the interpreter's exit on an uncaught exception
Abort(e, where) ==
    /\ raised' = Exception(e, where)
    /\ stderr' = Append(stderr, [kind |-> IF e \in Caught THEN "error"
                                          ELSE "traceback", exc |-> e])
    /\ exit_code' = Some(1)
    /\ pc' = "done"

\* line 294
LoadBaseline ==
    /\ pc = "load_baseline"
    /\ LET r == load_benchmark_json(files.baseline)
       IN IF r.raised # ""
          THEN /\ Abort(r.raised, "load_benchmark_json")
               /\ UNCHANGED baseline
          ELSE /\ baseline' = r.value
               /\ pc' = "load_current"
               /\ UNCHANGED <<raised, stderr, exit_code>>
    /\ UNCHANGED <<args, files, current, comparisons, stdout, report_file, gate>>

\* line 295
LoadCurrent ==
    /\ pc = "load_current"
    /\ LET r == load_benchmark_json(files.current)
       IN IF r.raised # ""
          THEN /\ Abort(r.raised, "load_benchmark_json")
               /\ UNCHANGED current
          ELSE /\ current' = r.value
               /\ pc' = "compare"
               /\ UNCHANGED <<raised, stderr, exit_code>>
    /\ UNCHANGED <<args, files, baseline, comparisons, stdout, report_file, gate>>

\* line 304
Compare ==
    /\ pc = "compare"
    /\ LET r == compare_benchmarks(baseline, current, args.threshold)
       IN IF r.raised # ""
          THEN /\ Abort(r.raised, "compare_benchmarks")
               /\ UNCHANGED comparisons
          ELSE /\ comparisons' = Some(r.value)
               /\ pc' = "summary"
               /\ UNCHANGED <<raised, stderr, exit_code>>
    /\ UNCHANGED <<args, files, baseline, current, stdout, report_file, gate>>

\* lines 307-308
Summary ==
    /\ pc = "summary"
    /\ stdout' = IF args.quiet THEN stdout
                 ELSE Append(stdout, [kind |-> "summary",
                                      lines |-> print_summary(comparisons[1])])
    /\ pc' = "report"
    /\ UNCHANGED <<args, files, baseline, current, comparisons, raised,
                   stderr, report_file, gate, exit_code>>

\* lines 311-316; open(args.report, 'w') fails when the path cannot be
\* written, and main does not catch the OSError
Report ==
    /\ pc = "report"
    /\ IF args.report # None
       THEN \/ /\ report_file' = Some([path |-> args.report[1],
                                       content |-> generate_markdown_report(
                                           comparisons[1], args.baseline,
                                           args.current)])
               /\ stdout' = IF args.quiet THEN stdout
                            ELSE Append(stdout, [kind |-> "report_saved",
                                                 path |-> args.report[1]])
               /\ pc' = "gate"
               /\ UNCHANGED <<raised, stderr, exit_code>>
            \/ /\ Abort("OSError", "open")
               /\ UNCHANGED <<report_file, stdout>>
       ELSE /\ pc' = "gate"
            /\ UNCHANGED <<report_file, stdout, raised, stderr, exit_code>>
    /\ UNCHANGED <<args, files, baseline, current, comparisons, gate>>

exit_on_any_regression(has_regression, fail_on_regression) ==
    IF has_regression THEN 1 ELSE 0

\* lines 321-330
exit_status(has_regression, fail_on_regression) ==
    IF has_regression /\ fail_on_regression THEN 1 ELSE 0

\* lines 319-330
Gate ==
    /\ pc = "gate"
    /\ LET g == check_regression(comparisons[1], args.threshold)
       IN /\ gate' = GateResult(g, comparisons[1])
          /\ stdout' =
               IF args.quiet THEN stdout
               ELSE IF g.has_regression
               THEN Append(stdout, [kind |-> "regressions_detected",
                                    n |-> Len(g.regressions)])
               ELSE Append(stdout, [kind |-> "no_regressions"])
          /\ exit_code' = Some(exit_status(g.has_regression,
                                           args.fail_on_regression))
    /\ pc' = "done"
    /\ UNCHANGED <<args, files, baseline, current, comparisons, raised,
                   stderr, report_file>>

Next == LoadBaseline \/ LoadCurrent \/ Compare \/ Summary \/ Report \/ Gate

Spec == Init /\ [][Next]_vars

----------------------------------------------------------------------------
(* Properties *)

Returned == pc = "returned" /\ raised = NoException
HasTime(r) == "cpu_time" \in DOMAIN r \/ "real_time" \in DOMAIN r
AllHaveTime(d) == \A i \in 1..Len(d) : HasTime(d[i][2])
KeySet(d) == {d[i][1] : i \in 1..Len(d)}
BothPresent(c) == c.baseline_time # None /\ c.current_time # None

\* the k-th smallest index of a set of indices
Kth(idx, k) == CHOOSE i \in idx : Cardinality({j \in idx : j <= i}) = k
\* the elements of cs whose change_type is t, in the order of cs
OfType(cs, t) ==
    LET idx == {i \in 1..Len(cs) : cs[i].change_type = t}
    IN [k \in 1..Cardinality(idx) |-> cs[Kth(idx, k)]]

\* C1: when every record of both sets carries a duration field,
\* compare_benchmarks returns a list in which every name of either set appears
\* exactly once and no other name appears; its length is the size of the union
\* of the two key sets.
C1_UnionOnce ==
    (pc = "returned" /\ AllHaveTime(baseline.items) /\ AllHaveTime(current.items))
    => /\ raised = NoException
       /\ LET cs == comparisons[1]
              K == KeySet(baseline.items) \cup KeySet(current.items)
          IN /\ \A n \in K : Cardinality({i \in 1..Len(cs) : cs[i].name = n}) = 1
             /\ \A i \in 1..Len(cs) : cs[i].name \in K
             /\ Len(cs) = Cardinality(K)

\* a name in both sets and a name in one only: the union is smaller than the
\* number of records
C1_Witness ==
    /\ Returned
    /\ KeySet(baseline.items) \cap KeySet(current.items) # {}
    /\ KeySet(current.items) \ KeySet(baseline.items) # {}
    /\ Len(comparisons[1]) = 2

\* C2: with a threshold >= 0, a comparison with both times present is a
\* regression iff change_percent > threshold, an improvement iff
\* change_percent < -threshold, and unchanged otherwise (so also when
\* change_percent equals threshold or -threshold).
C2_Classification ==
    (Returned /\ ~FracLess(args.threshold, Zero))
    => \A i \in 1..Len(comparisons[1]) :
          LET c == comparisons[1][i]
          IN BothPresent(c) =>
               /\ c.change_type \in {ChangeType_IMPROVEMENT,
                                     ChangeType_REGRESSION,
                                     ChangeType_UNCHANGED}
               /\ (c.change_type = ChangeType_REGRESSION
                     <=> FracLess(args.threshold, c.change_percent))
               /\ (c.change_type = ChangeType_IMPROVEMENT
                     <=> FracLess(c.change_percent, FracNeg(args.threshold)))
               /\ (FracEq(c.change_percent, args.threshold)
                     \/ FracEq(c.change_percent, FracNeg(args.threshold))
                   => c.change_type = ChangeType_UNCHANGED)

\* a change of exactly the (positive) threshold
C2_Witness ==
    /\ Returned
    /\ FracLess(Zero, args.threshold)
    /\ \E i \in 1..Len(comparisons[1]) :
          /\ BothPresent(comparisons[1][i])
          /\ FracEq(comparisons[1][i].change_percent, args.threshold)
          /\ comparisons[1][i].change_type = ChangeType_UNCHANGED

\* the dicts with the items of d in another iteration order
Reorderings(d) ==
    {[i \in 1..Len(d) |-> d[p[i]]] :
        p \in {q \in [1..Len(d) -> 1..Len(d)] :
                 \A i, j \in 1..Len(d) : q[i] = q[j] => i = j}}

\* C3: the list compare_benchmarks returns is in strictly ascending order of
\* name, and the same two sets in any other key iteration order give the
\* identical list.
C3_SortedDeterministic ==
    Returned
    => LET cs == comparisons[1]
       IN /\ \A i \in 1..(Len(cs) - 1) : StrLess(cs[i].name, cs[i + 1].name)
          /\ \A b \in Reorderings(baseline.items) :
                \A c \in Reorderings(current.items) :
                   compare_benchmarks(PyDict(b), PyDict(c), args.threshold)
                     = Ok(cs)

\* the baseline iterates "b" before "a", and "ab" is compared too
C3_Witness ==
    /\ Returned
    /\ Len(baseline.items) = 2
    /\ baseline.items[1][1] = Name_b
    /\ baseline.items[2][1] = Name_a
    /\ Len(comparisons[1]) = 3

\* C7 as stated: speedup is baseline_time / current_time when both times are
\* present and current_time > 0, and 1.0 in every other case.
C7_AsStated ==
    Returned
    => \A i \in 1..Len(comparisons[1]) :
          LET c == comparisons[1][i]
          IN IF BothPresent(c) /\ c.current_time[1] > 0
             THEN FracEq(c.speedup, Frac(c.baseline_time[1], c.current_time[1]))
             ELSE FracEq(c.speedup, One)

\* C7, amended: speedup is baseline_time / current_time when both times are
\* present, baseline_time > 0 and current_time > 0; it is 0 when both are
\* present, baseline_time > 0 and current_time is not greater than 0; it is 1.0
\* in every other case (name in one set only, or baseline_time not greater
\* than 0).
C7_Speedup ==
    Returned
    => \A i \in 1..Len(comparisons[1]) :
          LET c == comparisons[1][i]
          IN IF BothPresent(c) /\ c.baseline_time[1] > 0
             THEN IF c.current_time[1] > 0
                  THEN FracEq(c.speedup,
                              Frac(c.baseline_time[1], c.current_time[1]))
                  ELSE FracEq(c.speedup, Zero)
             ELSE FracEq(c.speedup, One)

\* a positive baseline against a current time of 0, beside a zero baseline
C7_Witness ==
    /\ Returned
    /\ \E i \in 1..Len(comparisons[1]) :
          LET c == comparisons[1][i]
          IN /\ BothPresent(c)
             /\ c.baseline_time[1] > 0
             /\ c.current_time[1] = 0
             /\ c.speedup = Zero

----------------------------------------------------------------------------
(* Properties of main *)

BothLoaded ==
    \/ pc \in {"compare", "summary", "report", "gate"}
    \/ pc = "done" /\ raised.at # "load_benchmark_json"
SomeRecordWithoutTime ==
    /\ BothLoaded
    /\ IsDict(baseline)
    /\ IsDict(current)
    /\ ~(AllHaveTime(baseline.items) /\ AllHaveTime(current.items))
SummaryPrinted == \E i \in 1..Len(stdout) : stdout[i].kind = "summary"
RegressionFound ==
    /\ comparisons # None
    /\ \E i \in 1..Len(comparisons[1]) : IsRegression(comparisons[1][i])

ReportWriteFailed == raised = Exception("OSError", "open")

\* the exit status as a function of the files, the threshold, the
\* fail-on-regression flag and the outcome of writing the report
ExitOf(fs, threshold, fail_on_regression, write_failed) ==
    LET b == load_benchmark_json(fs.baseline)
        c == load_benchmark_json(fs.current)
    IN IF b.raised # "" \/ c.raised # "" THEN 1
       ELSE LET r == compare_benchmarks(b.value, c.value, threshold)
            IN IF r.raised # "" \/ write_failed THEN 1
               ELSE IF fail_on_regression
                       /\ \E i \in 1..Len(r.value) : IsRegression(r.value[i])
               THEN 1 ELSE 0

C5_MissingFieldAborts ==
    SomeRecordWithoutTime
    => /\ comparisons = None
       /\ ~SummaryPrinted
       /\ report_file = None
       /\ pc \in {"compare", "done"}
       /\ pc = "done" => /\ raised = Exception("ValueError", "compare_benchmarks")
                         /\ exit_code = Some(1)

\* the run has ended on a set whose first name has a valid record, with the
\* summary and the report asked for
C5_Witness ==
    /\ pc = "done"
    /\ SomeRecordWithoutTime
    /\ ~args.quiet
    /\ args.report # None
    /\ Len(baseline.items) = 1
    /\ HasTime(baseline.items[1][2])
    /\ Len(current.items) = 1
    /\ StrLess(baseline.items[1][1], current.items[1][1])

\* a JSON value in neither recognized shape
NeitherShape(file) ==
    /\ file.kind = "json"
    /\ \/ file.data.kind # "dict"
       \/ /\ "benchmarks" \in DOMAIN file.data
          /\ \E i \in 1..Len(file.data.benchmarks) :
                "name" \notin DOMAIN file.data.benchmarks[i]
CompareInvoked == comparisons # None \/ raised.at = "compare_benchmarks"

\* C6: the loader fails on every source value that is in neither recognized
\* shape (not an object, or a 'benchmarks' entry without a name), at load
\* time: compare_benchmarks is never invoked on it.
C6_LoaderRejects ==
    /\ NeitherShape(files.baseline)
         => /\ pc \in {"load_baseline", "done"}
            /\ pc = "done" => raised.at = "load_benchmark_json"
    /\ NeitherShape(files.current)
         => /\ ~CompareInvoked
            /\ pc \in {"load_baseline", "load_current", "done"}

----------------------------------------------------------------------------
(* Properties of the gate and of the document report *)

\* C8: check_regression returns true iff some comparison is a regression,
\* with exactly the regressions in input order (none when it returns false);
\* the input list is unchanged and the threshold has no effect.
C8_Gate ==
    gate.called
    => LET cs == comparisons[1]
       IN /\ gate.has_regression
               <=> \E i \in 1..Len(cs) : cs[i].change_type = ChangeType_REGRESSION
          /\ gate.regressions = OfType(cs, ChangeType_REGRESSION)
          /\ ~gate.has_regression => gate.regressions = <<>>
          /\ cs = gate.arg
          /\ \A th \in Thresholds :
                check_regression(cs, th)
                  = [has_regression |-> gate.has_regression,
                     regressions |-> gate.regressions]

\* two regressions with another comparison between them, and a threshold
\* under which change_percent would select other comparisons
C8_Witness ==
    /\ gate.called
    /\ Len(gate.regressions) = 2
    /\ Len(comparisons[1]) = 3
    /\ ~IsRegression(comparisons[1][2])
    /\ args.threshold = Frac(0 - 1, 10)

\* the rows that follow line j of a document
RECURSIVE RowsFrom(_, _)
RowsFrom(lines, j) ==
    IF j <= Len(lines) /\ lines[j].kind = "row"
    THEN <<lines[j]>> \o RowsFrom(lines, j + 1)
    ELSE <<>>
HasHeading(lines, h) == \E i \in 1..Len(lines) : lines[i] = Text(h)
\* the rows of the table under heading h: the heading, a blank line, the
\* header and the rule come first
TableRows(lines, h) ==
    LET i == CHOOSE k \in 1..Len(lines) : lines[k] = Text(h)
    IN RowsFrom(lines, i + 4)
RECURSIVE SumCounts(_)
SumCounts(lines) ==
    IF lines = <<>> THEN 0
    ELSE (IF Head(lines).kind = "count" THEN Head(lines).n ELSE 0)
         + SumCounts(Tail(lines))
SpeedupRowsMatch(rows, cs) ==
    /\ Len(rows) = Len(cs)
    /\ \A k \in 1..Len(rows) :
          /\ rows[k].name = cs[k].name
          /\ rows[k].last.speedup = cs[k].speedup
          /\ FracEq(rows[k].change.value,
                    Frac(cs[k].change_percent.num * 100, cs[k].change_percent.den))

\* C9: the report has the Regressions section iff some comparison is a
\* regression and the Improvements section iff some is an improvement; the
\* rows of each are the comparisons of that change_type in input order; All
\* Results has one row per comparison in input order; the five summary counts
\* sum to the number of comparisons.
C9_ReportSections ==
    report_file # None
    => LET cs == comparisons[1]
           lines == report_file[1].content
           regs == OfType(cs, ChangeType_REGRESSION)
           imps == OfType(cs, ChangeType_IMPROVEMENT)
           all == TableRows(lines, "## All Results")
       IN /\ HasHeading(lines, "## Regressions") <=> regs # <<>>
          /\ HasHeading(lines, "## Improvements") <=> imps # <<>>
          /\ regs # <<>>
               => SpeedupRowsMatch(TableRows(lines, "## Regressions"), regs)
          /\ imps # <<>>
               => SpeedupRowsMatch(TableRows(lines, "## Improvements"), imps)
          /\ HasHeading(lines, "## All Results")
          /\ Len(all) = Len(cs)
          /\ \A k \in 1..Len(all) :
                /\ all[k].name = cs[k].name
                /\ all[k].last.status = cs[k].change_type
          /\ Cardinality({i \in 1..Len(lines) : lines[i].kind = "count"}) = 5
          /\ SumCounts(lines) = Len(cs)

\* a report with both sections, the two regressions apart in the list
C9_Witness ==
    /\ report_file # None
    /\ Len(comparisons[1]) = 3
    /\ IsRegression(comparisons[1][1])
    /\ IsImprovement(comparisons[1][2])
    /\ IsRegression(comparisons[1][3])
    /\ comparisons[1][1].name # comparisons[1][3].name

\* C10: in every table row of the report the Baseline (Current) cell is 'N/A'
\* iff the comparison's baseline_time (current_time) is absent; a duration
\* that is present, 0 included, is rendered through format_time.
C10_NAOnlyWhenAbsent ==
    report_file # None
    => LET cs == comparisons[1]
           all == TableRows(report_file[1].content, "## All Results")
       IN \A k \in 1..Len(cs) :
             /\ all[k].baseline = NA <=> cs[k].baseline_time = None
             /\ all[k].current = NA <=> cs[k].current_time = None
             /\ cs[k].baseline_time # None
                  => all[k].baseline = format_time(cs[k].baseline_time[1])
             /\ cs[k].current_time # None
                  => all[k].current = format_time(cs[k].current_time[1])

====
